---- MODULE Spec2Model ----
(***************************************************************************)
(* Authentication and session lifecycle of the server template:           *)
(* auth.service.ts over auth.repo.ts / session.repo.ts, libs/password.ts, *)
(* libs/auth.ts and the expiry sweep of libs/cleanup.ts.                   *)
(*                                                                         *)
(* Every `await` of the service is a suspension point.  One action of the  *)
(* model is one store call together with the synchronous continuation      *)
(* that runs up to the next store call.  Time is in milliseconds.          *)
(***************************************************************************)
EXTENDS Integers, Sequences, FiniteSets, TLC

VARIABLES
    users,        \* User table: sequence of rows, id = index
    tokens,       \* RefreshToken table: set of rows
    sessions,     \* Session table: set of rows
    nextToken,    \* next value of generateRefreshToken() (uuid v4: never repeats)
    nextSession,  \* next Session id (uuid default)
    now,          \* Date.now()
    req,          \* per request slot: the running service call and its locals
    sweep,        \* the setInterval callback of registerCleanupJob
    budget,       \* service calls that may still be started
    ticks,        \* clock advances that may still happen
    redeemed,     \* history: token strings of successful refreshes (sequence)
    removed,      \* history: token strings whose row has been deleted
    failures,     \* history: <<branch, error>> of every failed login
    known,        \* token strings a client can present: 0 (never a token) and
                  \* every token a call has returned
    fin,          \* input of the pure function under check
    fout,         \* its output
    fpc,          \* position of the pure-function harness
    isRefreshing,     \* axios.config.ts: let isRefreshing
    refreshTimestamp, \* axios.config.ts: let refreshTimestamp
    failedQueue,      \* axios.config.ts: failedQueue, as the requests parked in it
    requests          \* the browser's requests: where each one stands

storeVars == <<users, tokens, sessions, nextToken, nextSession>>
histVars  == <<redeemed, removed, failures, known>>
pureVars  == <<fin, fout, fpc>>
clientVars == <<isRefreshing, refreshTimestamp, failedQueue, requests>>
serverVars == <<storeVars, now, req, sweep, budget, ticks, histVars>>
vars == <<users, tokens, sessions, nextToken, nextSession, now, req, sweep,
          budget, ticks, redeemed, removed, failures, known, fin, fout, fpc,
          isRefreshing, refreshTimestamp, failedQueue, requests>>

----------------------------------------------------------------------------
(* Bounds of the model *)

MaxOps      == 3    \* service calls per behaviour in Spec
MaxTicks    == 1    \* clock advances per behaviour
MaxRefreshes == 3   \* refresh calls per behaviour in SpecRace
MaxLogins   == 8    \* login calls per behaviour in SpecLogin
MaxLogouts  == 3    \* service calls per behaviour in SpecLogout
MaxCalls    == 3    \* service calls per behaviour in SpecAccounts
MaxLockCalls == 3   \* service calls per behaviour in SpecLockout
MaxAllCalls == 4    \* service calls per behaviour in SpecLogoutAll
MaxRequests == 3    \* requests the browser sends in SpecClient
MaxWrong    == 4    \* wrong-password logins per behaviour in SpecIncrement
MaxMatchCalls == 3  \* service calls per behaviour in SpecLogoutMatch
MaxOwnerCalls == 3  \* refresh calls per behaviour in SpecOwner
MaxRehashCalls == 4 \* login calls per behaviour in SpecRehash
MaxRotateCalls == 3 \* service calls per behaviour in SpecRotate
MaxRaceCalls == 4   \* login calls per behaviour in SpecLockRace
MaxAllRaceCalls == 4 \* service calls per behaviour in SpecAllRace
MaxAttempts == 20   \* largest failed-attempt count fed to getLockoutDuration

Procs     == {"p1", "p2"}
Passwords == {"pw1", "pw2", "pw3", "pw4"}

\* Optional values: null is <<>>, a present value v is <<v>>.
Null      == <<>>
Some(v)   == <<v>>
IsNull(o) == o = <<>>
Val(o)    == o[1]

----------------------------------------------------------------------------
(* libs/password.ts *)

BCRYPT_PREFIXES == {"$2a$", "$2b$", "$2y$"}
ARGON2_PREFIX   == "$argon2id$"

\* A hash string is its scheme prefix followed by a digest that only the
\* password it was made from verifies against.
Hashes == [prefix : BCRYPT_PREFIXES \cup {ARGON2_PREFIX}, digest : Passwords]

hashPasswordBcrypt(password) == [prefix |-> "$2b$", digest |-> password]

hashPassword(password) == [prefix |-> ARGON2_PREFIX, digest |-> password]

bcryptCompare(password, hash) == hash.digest = password
argon2Verify(hash, password)  == hash.prefix = ARGON2_PREFIX /\ hash.digest = password

verifyPasswordBuggy(password, hash) ==
    LET isBcryptHash == hash.prefix \in BCRYPT_PREFIXES
    IN  IF isBcryptHash
        THEN [valid |-> bcryptCompare(password, hash), needsRehash |-> TRUE]
        ELSE [valid |-> argon2Verify(hash, password), needsRehash |-> FALSE]

verifyPassword(password, hash) ==
    LET isBcryptHash == hash.prefix \in BCRYPT_PREFIXES
    IN  IF isBcryptHash
        THEN LET valid == bcryptCompare(password, hash)
             IN  [valid |-> valid, needsRehash |-> valid]
        ELSE [valid |-> argon2Verify(hash, password), needsRehash |-> FALSE]

----------------------------------------------------------------------------
(* auth.service.ts: lockout policy *)

MINUTE == 60 * 1000

LOCKOUT_THRESHOLDS ==
    << [attempts |-> 5,  durationMs |-> 15 * MINUTE],
       [attempts |-> 10, durationMs |-> 30 * MINUTE],
       [attempts |-> 15, durationMs |-> 60 * MINUTE] >>

\* The for loop of getLockoutDuration, from index i downward (1-based).
RECURSIVE lockoutScan(_, _)
lockoutScanBuggy(i, failedAttempts) ==
    IF i < 1 THEN Null
    ELSE IF failedAttempts > LOCKOUT_THRESHOLDS[i].attempts
         THEN Some(LOCKOUT_THRESHOLDS[i].durationMs)
         ELSE lockoutScan(i - 1, failedAttempts)

lockoutScan(i, failedAttempts) ==
    IF i < 1 THEN Null
    ELSE IF failedAttempts >= LOCKOUT_THRESHOLDS[i].attempts
         THEN Some(LOCKOUT_THRESHOLDS[i].durationMs)
         ELSE lockoutScan(i - 1, failedAttempts)

getLockoutDuration(failedAttempts) ==
    lockoutScan(Len(LOCKOUT_THRESHOLDS), failedAttempts)

----------------------------------------------------------------------------
(* libs/auth.ts *)

DAY == 24 * 60 * 60 * 1000

\* parseDurationMs(env.JWT_REFRESH_EXPIRY = '7d', ...)
REFRESH_EXPIRY_MS == 7 * DAY

getRefreshTokenExpiresAt == now + REFRESH_EXPIRY_MS

signAccessToken(payload) == [userId |-> payload.userId, role |-> payload.role]

----------------------------------------------------------------------------
(* shared/errors/errors.ts *)

AppError(name, code, message, statusCode) ==
    [kind |-> name, code |-> code, message |-> message, statusCode |-> statusCode]

UnauthorizedError(message, code) == AppError("UnauthorizedError", code, message, 401)
NotFoundError(message, code)     == AppError("NotFoundError", code, message, 404)
ConflictError(message, code)     == AppError("ConflictError", code, message, 409)

\* Errors of the store client, which are no AppError.
PrismaError(code) ==
    [kind |-> "PrismaClientKnownRequestError", code |-> code,
     message |-> "prisma", statusCode |-> 0]
StoreDown == [kind |-> "Error", code |-> "", message |-> "DB error", statusCode |-> 0]

NoResult  == [kind |-> "none"]
Ok(value) == [kind |-> "ok", value |-> value]

TypedErrors == {"ConflictError", "UnauthorizedError", "NotFoundError"}

----------------------------------------------------------------------------
(* Rows *)

UserRow(id, email, password, isActive, deletedAt, failed, lockedUntil) ==
    [id |-> id, email |-> email, password |-> password, role |-> "USER",
     isActive |-> isActive, deletedAt |-> deletedAt,
     failedLoginAttempts |-> failed, lockedUntil |-> lockedUntil]

TokenRow(token, userId, expiresAt, createdAt) ==
    [token |-> token, userId |-> userId, expiresAt |-> expiresAt,
     createdAt |-> createdAt]

SessionRow(id, userId, expiresAt, createdAt) ==
    [id |-> id, userId |-> userId, expiresAt |-> expiresAt,
     createdAt |-> createdAt, lastActiveAt |-> createdAt]

UserIds == 1..Len(users)

----------------------------------------------------------------------------
(* auth.repo.ts, as operators over the tables *)

findUserByEmail(email) ==
    LET hit == {i \in UserIds : users[i].email = email /\ IsNull(users[i].deletedAt)}
    IN  IF hit = {} THEN Null ELSE Some(users[CHOOSE i \in hit : TRUE])

findUserByIdDeleted(id) ==
    IF id \in UserIds THEN Some(users[id]) ELSE Null

findUserById(id) ==
    IF id \in UserIds /\ IsNull(users[id].deletedAt) THEN Some(users[id]) ELSE Null

\* prisma.user.create: email is a unique column (findUnique is keyed on it),
\* whatever deletedAt holds; a duplicate is rejected with P2002.
emailTaken(email) == \E i \in UserIds : users[i].email = email

createUser(data) ==
    IF emailTaken(data.email)
    THEN [error |-> Some(PrismaError("P2002")), user |-> Null]
    ELSE [error |-> Null,
          user  |-> Some(UserRow(Len(users) + 1, data.email, data.password,
                                 TRUE, Null, 0, Null))]

findRefreshToken(token) ==
    LET hit == {r \in tokens : r.token = token}
    IN  IF hit = {} THEN Null ELSE Some(CHOOSE r \in hit : TRUE)

\* delete by token; P2025 (no such row) is swallowed
deleteRefreshToken(token) == {r \in tokens : r.token # token}

\* $transaction([delete old, create new]): all or nothing
rotateRefreshTokenBlind(oldToken, newRow) ==
    [rotated |-> TRUE,
     tokens  |-> {r \in tokens : r.token # oldToken} \cup {newRow}]

rotateRefreshToken(oldToken, newRow) ==
    IF \E r \in tokens : r.token = oldToken
    THEN [rotated |-> TRUE,
          tokens  |-> {r \in tokens : r.token # oldToken} \cup {newRow}]
    ELSE [rotated |-> FALSE, tokens |-> tokens]

deleteRefreshTokensByUserId(userId) == {r \in tokens : r.userId # userId}

updateUser(id, row) == [users EXCEPT ![id] = row]

\* read-then-write in the application: the count a pending login read, plus one
incrementFailedAttemptsReadThenWrite(id) ==
    LET read == {Val(req[p].user).failedLoginAttempts :
                    p \in {q \in Procs : req[q].pc = "incrementFailedAttempts"}}
        least == CHOOSE n \in read : \A o \in read : n <= o
    IN  updateUser(id, [users[id] EXCEPT !.failedLoginAttempts = least + 1])

\* data: { failedLoginAttempts: { increment: 1 } }
incrementFailedAttempts(id) ==
    updateUser(id, [users[id] EXCEPT !.failedLoginAttempts = @ + 1])

setAccountLockNowhere(id, lockedUntil) == users

setAccountLock(id, lockedUntil) ==
    updateUser(id, [users[id] EXCEPT !.lockedUntil = Some(lockedUntil)])

resetFailedAttemptsCountOnly(id) ==
    updateUser(id, [users[id] EXCEPT !.failedLoginAttempts = 0])

resetFailedAttempts(id) ==
    updateUser(id, [users[id] EXCEPT !.failedLoginAttempts = 0, !.lockedUntil = Null])

updateUserPassword(id, hashedPassword) ==
    updateUser(id, [users[id] EXCEPT !.password = hashedPassword])

----------------------------------------------------------------------------
(* session.repo.ts *)

\* findMany where userId and expiresAt > now (the caller orders them)
getUserSessionRows(userId) ==
    {s \in sessions : s.userId = userId /\ s.expiresAt > now}

deleteAllUserSessionsOfAnyone(userId) == {}

deleteAllUserSessions(userId) == {s \in sessions : s.userId # userId}

countAllUserSessions(userId) == Cardinality({s \in sessions : s.userId = userId})

----------------------------------------------------------------------------
(* Request slots: one running service call each, with the call's locals *)

IdleReq ==
    [op |-> "idle", pc |-> "idle",
     email |-> "", password |-> "", token |-> 0, userId |-> 0,   \* arguments
     user |-> Null,            \* const user / existingUser
     storedToken |-> Null,     \* const storedToken
     hashedPassword |-> Null,  \* const hashedPassword / newHash
     needsRehash |-> FALSE,
     verified |-> FALSE,       \* history: verifyPassword was called
     accessToken |-> Null,
     refreshToken |-> 0,       \* const refreshToken / newRefreshToken
     expiresAt |-> 0,          \* const refreshTokenExpiresAt
     lockUntil |-> 0,          \* argument of the pending setAccountLock
     sessionId |-> 0,          \* matchingSession.id
     tokenRow |-> Null,        \* history: RefreshToken row this call inserted
     sessionRow |-> Null,      \* history: Session row this call inserted
     stale |-> FALSE,          \* history: the token's row was deleted before the call
     cause |-> "",             \* history: the branch a failed login took
     result |-> NoResult]

CanStart(p) == req[p].pc \in {"idle", "done"} /\ budget > 0

Begin(op) == [IdleReq EXCEPT !.op = op]

Finish(r, result) == [r EXCEPT !.pc = "done", !.result = result]

SetReq(p, r) == req' = [req EXCEPT ![p] = r]

\* sanitizeUser: the rest-spread keeps every field of the row but password
sanitizeUserLeaky(user) == user

sanitizeUser(user) == [f \in DOMAIN user \ {"password"} |-> user[f]]

AuthResult(r) ==
    [user |-> sanitizeUser(Val(r.user)), accessToken |-> Val(r.accessToken),
     refreshToken |-> r.refreshToken]

\* signAccessToken, generateRefreshToken and getRefreshTokenExpiresAt, run
\* synchronously before createRefreshToken is awaited
IssueTokens(r, user) ==
    [r EXCEPT !.pc = "createRefreshToken",
              !.accessToken = Some(signAccessToken([userId |-> user.id, role |-> user.role])),
              !.refreshToken = nextToken,
              !.expiresAt = getRefreshTokenExpiresAt]

----------------------------------------------------------------------------
(* register *)

EMAIL_TAKEN == ConflictError("Email already registered", "EMAIL_ALREADY_EXISTS")

\* line 75: if (existingUser)
registerConflictNever(existingUser) == FALSE

registerConflict(existingUser) == ~IsNull(existingUser)

\* lines 74-77: findUserByEmail, then the conflict check
RegisterFind(p, email, password) ==
    /\ CanStart(p)
    /\ LET r0 == [Begin("register") EXCEPT !.email = email, !.password = password]
           existingUser == findUserByEmail(email)
       IN  IF registerConflict(existingUser)
           THEN SetReq(p, Finish([r0 EXCEPT !.user = existingUser], EMAIL_TAKEN))
           ELSE SetReq(p, [r0 EXCEPT !.pc = "createUser"])
    /\ budget' = budget - 1
    /\ UNCHANGED <<storeVars, now, sweep, ticks, histVars, pureVars, clientVars>>

\* lines 79-93: hashPassword, createUser, then the credentials are made
RegisterCreate(p) ==
    /\ req[p].pc = "createUser"
    /\ LET r == req[p]
           hashedPassword == hashPassword(r.password)
           made == createUser([email |-> r.email, password |-> hashedPassword])
           r1 == [r EXCEPT !.hashedPassword = Some(hashedPassword)]
       IN  IF ~IsNull(made.error)
           THEN /\ SetReq(p, Finish(r1, Val(made.error)))
                /\ UNCHANGED <<users, nextToken>>
           ELSE /\ users' = Append(users, Val(made.user))
                /\ SetReq(p, IssueTokens([r1 EXCEPT !.user = made.user], Val(made.user)))
                /\ nextToken' = nextToken + 1
    /\ UNCHANGED <<tokens, sessions, nextSession, now, sweep, budget, ticks,
                   histVars, pureVars, clientVars>>

\* lines 95-99 and 169-173: createRefreshToken (createdAt defaults to now())
CreateRefreshToken(p) ==
    /\ req[p].pc = "createRefreshToken"
    /\ LET r == req[p]
           row == TokenRow(r.refreshToken, Val(r.user).id, r.expiresAt, now)
       IN  /\ tokens' = tokens \cup {row}
           /\ SetReq(p, [r EXCEPT !.pc = "createSession", !.tokenRow = Some(row)])
    /\ UNCHANGED <<users, sessions, nextToken, nextSession, now, sweep, budget,
                   ticks, histVars, pureVars, clientVars>>

\* lines 101-112 and 175-186: createSession, then the result is returned
CreateSession(p) ==
    /\ req[p].pc = "createSession"
    /\ LET r == req[p]
           row == SessionRow(nextSession, Val(r.user).id, r.expiresAt, now)
           r1 == [r EXCEPT !.sessionRow = Some(row)]
       IN  /\ sessions' = sessions \cup {row}
           /\ SetReq(p, Finish(r1, Ok(AuthResult(r1))))
           /\ known' = known \cup {r.refreshToken}
    /\ nextSession' = nextSession + 1
    /\ UNCHANGED <<users, tokens, nextToken, now, sweep, budget, ticks,
                   redeemed, removed, failures, pureVars, clientVars>>

----------------------------------------------------------------------------
(* login *)

\* The four throw sites of login (lines 122, 127, 132, 148), by branch.
loginErrorTelling(cause) ==
    IF cause = "locked"
    THEN UnauthorizedError("Account locked", "ACCOUNT_LOCKED")
    ELSE UnauthorizedError("Invalid email or password", "INVALID_CREDENTIALS")

loginError(cause) ==
    CASE cause = "unknown"  -> UnauthorizedError("Invalid email or password", "INVALID_CREDENTIALS")
      [] cause = "inactive" -> UnauthorizedError("Invalid email or password", "INVALID_CREDENTIALS")
      [] cause = "locked"   -> UnauthorizedError("Invalid email or password", "INVALID_CREDENTIALS")
      [] cause = "password" -> UnauthorizedError("Invalid email or password", "INVALID_CREDENTIALS")

LoginFail(r, cause) == Finish([r EXCEPT !.cause = cause], loginError(cause))

Noted(cause) == failures \cup {<<cause, loginError(cause)>>}

\* line 131: user.lockedUntil && user.lockedUntil > new Date()
isLockedNever(user) == FALSE

isLocked(user) == ~IsNull(user.lockedUntil) /\ Val(user.lockedUntil) > now

\* lines 156-167 once no reset is pending: rehash next, or issue the tokens
AfterReset(r, user) ==
    IF r.needsRehash THEN [r EXCEPT !.pc = "updateUserPassword"]
    ELSE IssueTokens(r, user)

\* lines 120-135 and the branch taken on the verifier's answer (137, 152, 157)
LoginFind(p, email, password) ==
    /\ CanStart(p)
    /\ LET r0 == [Begin("login") EXCEPT !.email = email, !.password = password]
           found == findUserByEmail(email)
       IN  IF IsNull(found) THEN
               /\ SetReq(p, LoginFail(r0, "unknown"))
               /\ failures' = Noted("unknown")
               /\ UNCHANGED nextToken
           ELSE LET user == Val(found)
                    r1 == [r0 EXCEPT !.user = found]
                    v == verifyPassword(password, user.password)
                    r2 == [r1 EXCEPT !.needsRehash = v.needsRehash, !.verified = TRUE]
                IN  IF ~user.isActive THEN
                        /\ SetReq(p, LoginFail(r1, "inactive"))
                        /\ failures' = Noted("inactive")
                        /\ UNCHANGED nextToken
                    ELSE IF isLocked(user) THEN
                        /\ SetReq(p, LoginFail(r1, "locked"))
                        /\ failures' = Noted("locked")
                        /\ UNCHANGED nextToken
                    ELSE IF ~v.valid THEN
                        /\ SetReq(p, [r2 EXCEPT !.pc = "incrementFailedAttempts"])
                        /\ UNCHANGED <<nextToken, failures>>
                    ELSE IF user.failedLoginAttempts > 0 \/ ~IsNull(user.lockedUntil) THEN
                        /\ SetReq(p, [r2 EXCEPT !.pc = "resetFailedAttempts"])
                        /\ UNCHANGED <<nextToken, failures>>
                    ELSE
                        /\ SetReq(p, AfterReset(r2, user))
                        /\ nextToken' = IF v.needsRehash THEN nextToken ELSE nextToken + 1
                        /\ UNCHANGED failures
    /\ budget' = budget - 1
    /\ UNCHANGED <<users, tokens, sessions, nextSession, now, sweep, ticks,
                   redeemed, removed, known, pureVars, clientVars>>

\* lines 139-146: the store's atomic increment; the lock is decided on the
\* count read at line 120 plus one
LoginIncrement(p) ==
    /\ req[p].pc = "incrementFailedAttempts"
    /\ LET r == req[p]
           user == Val(r.user)
           newAttempts == user.failedLoginAttempts + 1
           lockDuration == getLockoutDuration(newAttempts)
       IN  /\ users' = incrementFailedAttempts(user.id)
           /\ IF ~IsNull(lockDuration)
              THEN /\ SetReq(p, [r EXCEPT !.pc = "setAccountLock",
                                          !.lockUntil = now + Val(lockDuration)])
                   /\ UNCHANGED failures
              ELSE /\ SetReq(p, LoginFail(r, "password"))
                   /\ failures' = Noted("password")
    /\ UNCHANGED <<tokens, sessions, nextToken, nextSession, now, sweep, budget,
                   ticks, redeemed, removed, known, pureVars, clientVars>>

\* lines 145-148
LoginSetLock(p) ==
    /\ req[p].pc = "setAccountLock"
    /\ LET r == req[p]
       IN  /\ users' = setAccountLock(Val(r.user).id, r.lockUntil)
           /\ SetReq(p, LoginFail(r, "password"))
           /\ failures' = Noted("password")
    /\ UNCHANGED <<tokens, sessions, nextToken, nextSession, now, sweep, budget,
                   ticks, redeemed, removed, known, pureVars, clientVars>>

\* lines 152-154
LoginReset(p) ==
    /\ req[p].pc = "resetFailedAttempts"
    /\ LET r == req[p]
           user == Val(r.user)
       IN  /\ users' = resetFailedAttempts(user.id)
           /\ SetReq(p, AfterReset(r, user))
           /\ nextToken' = IF r.needsRehash THEN nextToken ELSE nextToken + 1
    /\ UNCHANGED <<tokens, sessions, nextSession, now, sweep, budget, ticks,
                   histVars, pureVars, clientVars>>

\* lines 157-167: hashPassword, updateUserPassword, then the credentials
LoginRehash(p) ==
    /\ req[p].pc = "updateUserPassword"
    /\ LET r == req[p]
           user == Val(r.user)
           newHash == hashPassword(r.password)
       IN  /\ users' = updateUserPassword(user.id, newHash)
           /\ SetReq(p, IssueTokens([r EXCEPT !.hashedPassword = Some(newHash)], user))
    /\ nextToken' = nextToken + 1
    /\ UNCHANGED <<tokens, sessions, nextSession, now, sweep, budget, ticks,
                   histVars, pureVars, clientVars>>

\* lines 157-160 with hashPassword or updateUserPassword rejecting: nothing
\* catches it, so login rejects with that error
LoginRehashFails(p) ==
    /\ req[p].pc = "updateUserPassword"
    /\ SetReq(p, Finish([req[p] EXCEPT !.cause = "store"], StoreDown))
    /\ UNCHANGED <<storeVars, now, sweep, budget, ticks, histVars, pureVars, clientVars>>

----------------------------------------------------------------------------
(* refresh *)

Removed(gone) == removed \cup {r.token : r \in gone}

\* line 195: new Date() > storedToken.expiresAt
isExpiredNever(storedToken) == FALSE

isExpired(storedToken) == now > storedToken.expiresAt

\* lines 190-198: findRefreshToken, the null check and the expiry check
RefreshFind(p, token) ==
    /\ CanStart(p)
    /\ LET r0 == [Begin("refresh") EXCEPT !.token = token, !.stale = token \in removed]
           storedToken == findRefreshToken(token)
           r1 == [r0 EXCEPT !.storedToken = storedToken]
       IN  IF IsNull(storedToken)
           THEN SetReq(p, Finish(r1,
                    UnauthorizedError("Invalid refresh token", "INVALID_REFRESH_TOKEN")))
           ELSE IF isExpired(Val(storedToken))
           THEN SetReq(p, [r1 EXCEPT !.pc = "deleteExpired"])
           ELSE SetReq(p, [r1 EXCEPT !.pc = "findUserById"])
    /\ budget' = budget - 1
    /\ UNCHANGED <<storeVars, now, sweep, ticks, histVars, pureVars, clientVars>>

\* lines 196-197
RefreshDeleteExpired(p) ==
    /\ req[p].pc = "deleteExpired"
    /\ LET r == req[p]
       IN  /\ tokens' = deleteRefreshToken(r.token)
           /\ removed' = Removed(tokens \ tokens')
           /\ SetReq(p, Finish(r,
                  UnauthorizedError("Refresh token expired", "REFRESH_TOKEN_EXPIRED")))
    /\ UNCHANGED <<users, sessions, nextToken, nextSession, now, sweep, budget,
                   ticks, redeemed, failures, known, pureVars, clientVars>>

\* lines 200-217: findUserById, then the new credentials are made
RefreshFindUser(p) ==
    /\ req[p].pc = "findUserById"
    /\ LET r == req[p]
           user == findUserById(Val(r.storedToken).userId)
       IN  IF IsNull(user) \/ ~Val(user).isActive
           THEN /\ SetReq(p, Finish([r EXCEPT !.user = user],
                      UnauthorizedError("User not found or disabled", "INVALID_REFRESH_TOKEN")))
                /\ UNCHANGED nextToken
           ELSE /\ SetReq(p, [IssueTokens([r EXCEPT !.user = user], Val(user))
                                 EXCEPT !.pc = "rotateRefreshToken"])
                /\ nextToken' = nextToken + 1
    /\ UNCHANGED <<users, tokens, sessions, nextSession, now, sweep, budget,
                   ticks, histVars, pureVars, clientVars>>

\* lines 213-226: the rotation transaction and its outcome
RefreshRotate(p) ==
    /\ req[p].pc = "rotateRefreshToken"
    /\ LET r == req[p]
           row == TokenRow(r.refreshToken, Val(r.user).id, r.expiresAt, now)
           out == rotateRefreshToken(r.token, row)
       IN  /\ tokens' = out.tokens
           /\ removed' = Removed(tokens \ tokens')
           /\ IF out.rotated
              THEN /\ SetReq(p, Finish([r EXCEPT !.tokenRow = Some(row)],
                         Ok([accessToken |-> Val(r.accessToken),
                             refreshToken |-> r.refreshToken])))
                   /\ redeemed' = Append(redeemed, r.token)
                   /\ known' = known \cup {r.refreshToken}
              ELSE /\ SetReq(p, Finish(r,
                         UnauthorizedError("Refresh token already used", "INVALID_REFRESH_TOKEN")))
                   /\ UNCHANGED <<redeemed, known>>
    /\ UNCHANGED <<users, sessions, nextToken, nextSession, now, sweep, budget,
                   ticks, failures, pureVars, clientVars>>

----------------------------------------------------------------------------
(* logout *)

TOLERANCE_MS == 5000

Abs(x) == IF x < 0 THEN -x ELSE x

\* line 240
matchesTokenAny(s, tokenCreatedMs) == TRUE

matchesToken(s, tokenCreatedMs) == Abs(s.createdAt - tokenCreatedMs) < TOLERANCE_MS

\* lines 237-241: sessions.find over the list ordered by lastActiveAt desc;
\* the store orders rows of equal lastActiveAt either way
firstMatches(list, tokenCreatedMs) ==
    {s \in list : /\ matchesToken(s, tokenCreatedMs)
                  /\ \A o \in list : matchesToken(o, tokenCreatedMs)
                                       => o.lastActiveAt <= s.lastActiveAt}

\* the catch of lines 247-249: whatever was thrown, logout resolves
logoutCatchRethrow(error) == error

logoutCatch(error) == Ok(Null)

\* line 232
LogoutFind(p, token) ==
    /\ CanStart(p)
    /\ SetReq(p, [Begin("logout") EXCEPT !.token = token,
                                         !.storedToken = findRefreshToken(token),
                                         !.pc = "deleteRefreshToken"])
    /\ budget' = budget - 1
    /\ UNCHANGED <<storeVars, now, sweep, ticks, histVars, pureVars, clientVars>>

\* lines 233-235
LogoutDelete(p) ==
    /\ req[p].pc = "deleteRefreshToken" /\ req[p].op = "logout"
    /\ LET r == req[p]
       IN  /\ tokens' = deleteRefreshToken(r.token)
           /\ removed' = Removed(tokens \ tokens')
           /\ IF ~IsNull(r.storedToken)
              THEN SetReq(p, [r EXCEPT !.pc = "getUserSessions"])
              ELSE SetReq(p, Finish(r, Ok(Null)))
    /\ UNCHANGED <<users, sessions, nextToken, nextSession, now, sweep, budget,
                   ticks, redeemed, failures, known, pureVars, clientVars>>

\* lines 237-245
LogoutSessions(p) ==
    /\ req[p].pc = "getUserSessions" /\ req[p].op = "logout"
    /\ LET r == req[p]
           list == getUserSessionRows(Val(r.storedToken).userId)
           hits == firstMatches(list, Val(r.storedToken).createdAt)
       IN  IF hits = {}
           THEN SetReq(p, Finish(r, Ok(Null)))
           ELSE \E matchingSession \in hits :
                    SetReq(p, [r EXCEPT !.pc = "deleteSession",
                                        !.sessionId = matchingSession.id])
    /\ UNCHANGED <<storeVars, now, sweep, budget, ticks, histVars, pureVars, clientVars>>

\* line 244: prisma.session.delete rejects with P2025 when the row is gone
LogoutDeleteSession(p) ==
    /\ req[p].pc = "deleteSession"
    /\ LET r == req[p]
           row == {s \in sessions : s.id = r.sessionId}
       IN  /\ sessions' = sessions \ row
           /\ IF row = {}
              THEN SetReq(p, Finish(r, logoutCatch(PrismaError("P2025"))))
              ELSE SetReq(p, Finish(r, Ok(Null)))
    /\ UNCHANGED <<users, tokens, nextToken, nextSession, now, sweep, budget,
                   ticks, histVars, pureVars, clientVars>>

\* Any store call of logout rejecting (connection lost): caught at line 247
LogoutFindFails(p, token) ==
    /\ CanStart(p)
    /\ SetReq(p, Finish([Begin("logout") EXCEPT !.token = token, !.cause = "store"],
                        logoutCatch(StoreDown)))
    /\ budget' = budget - 1
    /\ UNCHANGED <<storeVars, now, sweep, ticks, histVars, pureVars, clientVars>>

LogoutStoreFails(p) ==
    /\ req[p].op = "logout"
    /\ req[p].pc \in {"deleteRefreshToken", "getUserSessions", "deleteSession"}
    /\ SetReq(p, Finish([req[p] EXCEPT !.cause = "store"], logoutCatch(StoreDown)))
    /\ UNCHANGED <<storeVars, now, sweep, budget, ticks, histVars, pureVars, clientVars>>

----------------------------------------------------------------------------
(* logoutAllSessions, getCurrentUser, getUserSessions *)

\* line 283
LogoutAllSessions(p, userId) ==
    /\ CanStart(p)
    /\ sessions' = deleteAllUserSessions(userId)
    /\ SetReq(p, [Begin("logoutAllSessions") EXCEPT
                      !.userId = userId,
                      !.pc = "deleteRefreshTokensByUserId",
                      !.result = Ok(countAllUserSessions(userId))])
    /\ budget' = budget - 1
    /\ UNCHANGED <<users, tokens, nextToken, nextSession, now, sweep, ticks,
                   histVars, pureVars, clientVars>>

\* lines 284-285
LogoutAllTokens(p) ==
    /\ req[p].pc = "deleteRefreshTokensByUserId"
    /\ tokens' = deleteRefreshTokensByUserId(req[p].userId)
    /\ removed' = Removed(tokens \ tokens')
    /\ SetReq(p, [req[p] EXCEPT !.pc = "done"])
    /\ UNCHANGED <<users, sessions, nextToken, nextSession, now, sweep, budget,
                   ticks, redeemed, failures, known, pureVars, clientVars>>

\* lines 252-259
GetCurrentUser(p, userId) ==
    /\ CanStart(p)
    /\ LET r0 == [Begin("getCurrentUser") EXCEPT !.userId = userId]
           user == findUserById(userId)
       IN  IF IsNull(user)
           THEN SetReq(p, Finish(r0, NotFoundError("User not found", "USER_NOT_FOUND")))
           ELSE SetReq(p, Finish([r0 EXCEPT !.user = user], Ok(sanitizeUser(Val(user)))))
    /\ budget' = budget - 1
    /\ UNCHANGED <<storeVars, now, sweep, ticks, histVars, pureVars, clientVars>>

\* lines 270-280
GetUserSessions(p, userId) ==
    /\ CanStart(p)
    /\ SetReq(p, Finish([Begin("getUserSessions") EXCEPT !.userId = userId],
                        Ok({[id |-> s.id, lastActiveAt |-> s.lastActiveAt,
                             expiresAt |-> s.expiresAt, createdAt |-> s.createdAt]
                            : s \in getUserSessionRows(userId)})))
    /\ budget' = budget - 1
    /\ UNCHANGED <<storeVars, now, sweep, ticks, histVars, pureVars, clientVars>>

----------------------------------------------------------------------------
(* libs/cleanup.ts: the hourly sweep, and the clock *)

CLEANUP_INTERVAL_MS == 60 * 60 * 1000

\* lines 8-14: the interval fires an hour after the start or the last firing
SweepTokens ==
    /\ sweep.pc = "idle"
    /\ now >= sweep.last + CLEANUP_INTERVAL_MS
    /\ tokens' = {r \in tokens : ~(r.expiresAt < now)}
    /\ removed' = Removed(tokens \ tokens')
    /\ sweep' = [pc |-> "sessions", at |-> now, last |-> now]
    /\ UNCHANGED <<users, sessions, nextToken, nextSession, now, req, budget,
                   ticks, redeemed, failures, known, pureVars, clientVars>>

\* lines 16-18
SweepSessions ==
    /\ sweep.pc = "sessions"
    /\ sessions' = {s \in sessions : ~(s.expiresAt < sweep.at)}
    /\ sweep' = [sweep EXCEPT !.pc = "idle"]
    /\ UNCHANGED <<users, tokens, nextToken, nextSession, now, req, budget,
                   ticks, histVars, pureVars, clientVars>>

\* The clock moves by d; HORIZON keeps every date within TLC's integers.
HORIZON == 2 * REFRESH_EXPIRY_MS

Tick(d) ==
    /\ ticks > 0
    /\ now + d <= HORIZON
    /\ now' = now + d
    /\ ticks' = ticks - 1
    /\ UNCHANGED <<storeVars, req, sweep, budget, histVars, pureVars, clientVars>>

----------------------------------------------------------------------------
(* client/src/lib/api/axios.config.ts: the response interceptor *)

REFRESH_TIMEOUT_MS == 15000

Requests == 1..MaxRequests

\* a request of the application: st is where it stands, retry is
\* originalRequest._retry
NewRequest == [st |-> "new", retry |-> FALSE]

InitClient ==
    /\ isRefreshing = FALSE
    /\ refreshTimestamp = 0
    /\ failedQueue = {}
    /\ requests = [x \in Requests |-> NewRequest]

\* lines 24-33: every parked promise is settled; a resolved one re-sends its
\* request (line 64), a rejected one fails
processQueue(rs, error) ==
    [x \in Requests |->
        IF x \in failedQueue
        THEN [rs[x] EXCEPT !.st = IF error THEN "failed" ELSE "sent"]
        ELSE rs[x]]

\* lines 35-38
resetRefreshState ==
    /\ isRefreshing' = FALSE
    /\ refreshTimestamp' = 0

\* the application calls apiClient(...)
Send(x) ==
    /\ requests[x].st = "new"
    /\ requests' = [requests EXCEPT ![x].st = "sent"]
    /\ UNCHANGED <<isRefreshing, refreshTimestamp, failedQueue, serverVars, pureVars>>

\* line 41: any response that is not an error
Respond2xx(x) ==
    /\ requests[x].st = "sent"
    /\ requests' = [requests EXCEPT ![x].st = "ok"]
    /\ UNCHANGED <<isRefreshing, refreshTimestamp, failedQueue, serverVars, pureVars>>

\* line 55
isStale == isRefreshing /\ now - refreshTimestamp > REFRESH_TIMEOUT_MS

\* lines 42-74: a 401 arrives for request x, up to the queueing or to the
\* POST of the refresh
Respond401(x) ==
    /\ requests[x].st = "sent"
    /\ IF requests[x].retry
       THEN /\ requests' = [requests EXCEPT ![x].st = "failed"]
            /\ UNCHANGED <<isRefreshing, refreshTimestamp, failedQueue>>
       ELSE LET rs == IF isStale THEN processQueue(requests, TRUE) ELSE requests
                queue == IF isStale THEN {} ELSE failedQueue
            IN  IF isRefreshing /\ ~isStale
                THEN /\ failedQueue' = queue \cup {x}
                     /\ requests' = [rs EXCEPT ![x].st = "queued"]
                     /\ UNCHANGED <<isRefreshing, refreshTimestamp>>
                ELSE /\ failedQueue' = queue
                     /\ requests' = [rs EXCEPT ![x] = [st |-> "refreshing", retry |-> TRUE]]
                     /\ isRefreshing' = TRUE
                     /\ refreshTimestamp' = now
    /\ UNCHANGED <<serverVars, pureVars>>

\* lines 74-79 and 92-94: the POST of x resolved
RefreshResolves(x) ==
    /\ requests[x].st = "refreshing"
    /\ requests' = [processQueue(requests, FALSE) EXCEPT ![x].st = "sent"]
    /\ failedQueue' = {}
    /\ resetRefreshState
    /\ UNCHANGED <<serverVars, pureVars>>

\* lines 80-83: the POST of x rejected (401, network error or the 30 s
\* axios timeout); the first dynamic import is awaited
RefreshRejects(x) ==
    /\ requests[x].st = "refreshing"
    /\ requests' = [processQueue(requests, TRUE) EXCEPT ![x].st = "importSlice"]
    /\ failedQueue' = {}
    /\ UNCHANGED <<isRefreshing, refreshTimestamp, serverVars, pureVars>>

\* lines 83-84: the second dynamic import is awaited
ImportStore(x) ==
    /\ requests[x].st = "importSlice"
    /\ requests' = [requests EXCEPT ![x].st = "importStore"]
    /\ UNCHANGED <<isRefreshing, refreshTimestamp, failedQueue, serverVars, pureVars>>

\* lines 85-94: logout is dispatched, the error is rethrown, finally resets
DispatchLogout(x) ==
    /\ requests[x].st = "importStore"
    /\ requests' = [requests EXCEPT ![x].st = "failed"]
    /\ resetRefreshState
    /\ UNCHANGED <<failedQueue, serverVars, pureVars>>

----------------------------------------------------------------------------
(* Initial states *)

InitPure ==
    /\ fin = Null
    /\ fout = Null
    /\ fpc = "off"

InitStore(seedUsers, seedTokens, seedSessions, calls) ==
    /\ users = seedUsers
    /\ tokens = seedTokens
    /\ sessions = seedSessions
    /\ nextToken = Cardinality(seedTokens) + 1
    /\ nextSession = Cardinality(seedSessions) + 1
    /\ now = 0
    /\ req = [p \in Procs |-> IdleReq]
    /\ sweep = [pc |-> "idle", at |-> 0, last |-> 0]
    /\ budget = calls
    /\ ticks = MaxTicks
    /\ redeemed = <<>>
    /\ removed = {}
    /\ failures = {}
    /\ known = {0} \cup {r.token : r \in seedTokens}
    /\ InitClient

InitServer(seedUsers, seedTokens, seedSessions, calls) ==
    /\ InitStore(seedUsers, seedTokens, seedSessions, calls)
    /\ InitPure

\* Steps that continue a call already started
RegisterSteps(p) ==
    \/ RegisterCreate(p)
    \/ CreateRefreshToken(p)
    \/ CreateSession(p)

LoginSteps(p) ==
    \/ LoginIncrement(p)
    \/ LoginSetLock(p)
    \/ LoginReset(p)
    \/ LoginRehash(p)
    \/ CreateRefreshToken(p)
    \/ CreateSession(p)

RefreshSteps(p) ==
    \/ RefreshDeleteExpired(p)
    \/ RefreshFindUser(p)
    \/ RefreshRotate(p)

LogoutSteps(p) ==
    \/ LogoutDelete(p)
    \/ LogoutSessions(p)
    \/ LogoutDeleteSession(p)

Issued == known

----------------------------------------------------------------------------
(* Spec: the token lifecycle under every interleaving of register, login, *)
(* refresh, logout, logoutAllSessions, the sweep and the clock            *)

\* a@x is an active user holding one token/session pair from an earlier login
SeedUsers    == << UserRow(1, "a@x", hashPassword("pw1"), TRUE, Null, 0, Null) >>
SeedTokens   == {TokenRow(1, 1, REFRESH_EXPIRY_MS, 0)}
SeedSessions == {SessionRow(1, 1, REFRESH_EXPIRY_MS, 0)}

Init == InitServer(SeedUsers, SeedTokens, SeedSessions, MaxOps)

Next ==
    \/ \E p \in Procs : RegisterFind(p, "e@x", "pw1")
    \/ \E p \in Procs : RegisterCreate(p)
    \/ \E p \in Procs : LoginFind(p, "a@x", "pw1")
    \/ \E p \in Procs : CreateRefreshToken(p)
    \/ \E p \in Procs : CreateSession(p)
    \/ \E p \in Procs, t \in Issued : RefreshFind(p, t)
    \/ \E p \in Procs : RefreshSteps(p)
    \/ \E p \in Procs, t \in Issued : LogoutFind(p, t)
    \/ \E p \in Procs : LogoutSteps(p)
    \/ \E p \in Procs : LogoutAllSessions(p, 1)
    \/ \E p \in Procs : LogoutAllTokens(p)
    \/ SweepTokens
    \/ SweepSessions
    \/ Tick(REFRESH_EXPIRY_MS + 1)

Spec == Init /\ [][Next]_vars

Range(seq) == {seq[i] : i \in 1..Len(seq)}

Done(p, op) == req[p].op = op /\ req[p].pc = "done"
Succeeded(p, op) == Done(p, op) /\ req[p].result.kind = "ok"
Failed(p, op)    == Done(p, op) /\ req[p].result.kind # "ok"

\* C2: at-most-one redemption.  No token string is redeemed by two successful
\* refreshes, a redeemed string has no row left, and no refresh that starts
\* after the row of its token was removed (by rotation, logout,
\* logoutAllSessions, expiry deletion or the sweep) succeeds.
C2_AtMostOneRedemption ==
    /\ \A i, j \in 1..Len(redeemed) : redeemed[i] = redeemed[j] => i = j
    /\ \A t \in Range(redeemed) : t \in removed /\ IsNull(findRefreshToken(t))
    /\ \A t \in removed : IsNull(findRefreshToken(t))
    /\ \A p \in Procs : Succeeded(p, "refresh") => ~req[p].stale

\* a token was redeemed once, and a later refresh presenting it was refused
C2_Witness ==
    \E p \in Procs :
        /\ Failed(p, "refresh")
        /\ req[p].stale
        /\ req[p].token \in Range(redeemed)
        /\ req[p].result.message = "Invalid refresh token"

----------------------------------------------------------------------------
(* SpecRace: refresh calls racing on the same stored token *)

InitRace == InitServer(SeedUsers, SeedTokens, SeedSessions, MaxRefreshes)

NextRace ==
    \/ \E p \in Procs, t \in Issued : RefreshFind(p, t)
    \/ \E p \in Procs : RefreshSteps(p)
    \/ Tick(REFRESH_EXPIRY_MS + 1)

SpecRace == InitRace /\ [][NextRace]_vars

ALREADY_USED == UnauthorizedError("Refresh token already used", "INVALID_REFRESH_TOKEN")

\* Two finished refresh calls presented the same token and both got past the
\* lookup, the expiry check and the user check (each made a new token), so
\* both lookups came before either rotation.
Raced(p, q) ==
    /\ p # q
    /\ Done(p, "refresh") /\ Done(q, "refresh")
    /\ req[p].token = req[q].token
    /\ req[p].refreshToken # 0 /\ req[q].refreshToken # 0

\* C1: of two refresh calls racing on one stored, unexpired token exactly one
\* returns new credentials and the other fails with 'Refresh token already
\* used'; the old row is gone and exactly one of the two new tokens is stored.
C1_RotationRace ==
    \A p, q \in Procs :
        Raced(p, q) =>
            /\ Succeeded(p, "refresh") \/ Succeeded(q, "refresh")
            /\ ~(Succeeded(p, "refresh") /\ Succeeded(q, "refresh"))
            /\ Failed(p, "refresh") => req[p].result = ALREADY_USED
            /\ Failed(q, "refresh") => req[q].result = ALREADY_USED
            /\ IsNull(findRefreshToken(req[p].token))
            /\ Cardinality({r \in tokens :
                   r.token \in {req[p].refreshToken, req[q].refreshToken}}) = 1
            /\ Cardinality({r \in tokens : r.userId = Val(req[p].user).id}) = 1

C1_Witness ==
    \E p, q \in Procs :
        /\ Raced(p, q)
        /\ Succeeded(p, "refresh")
        /\ req[q].result = ALREADY_USED

----------------------------------------------------------------------------
(* SpecLogin: login calls made one after the other *)

\* a@x: active, never failed, hash still bcrypt; c@x: disabled account
LoginUsers ==
    << UserRow(1, "a@x", [prefix |-> "$2b$", digest |-> "pw1"], TRUE, Null, 0, Null),
       UserRow(2, "c@x", hashPassword("pw1"), FALSE, Null, 0, Null) >>

InitLogin == InitServer(LoginUsers, {}, {}, MaxLogins)

NextLogin ==
    \/ \E e \in {"a@x", "c@x", "e@x"}, pw \in {"pw1", "pw2"} : LoginFind("p1", e, pw)
    \/ LoginSteps("p1")
    \/ Tick(LOCKOUT_THRESHOLDS[1].durationMs)

SpecLogin == InitLogin /\ [][NextLogin]_vars

INVALID_CREDENTIALS ==
    [kind |-> "UnauthorizedError", code |-> "INVALID_CREDENTIALS",
     message |-> "Invalid email or password", statusCode |-> 401]

\* C3: login enumeration resistance.  Every failed login, whichever of the
\* four conditions it met (unknown email, inactive account, locked account,
\* wrong password), surfaces the same error kind, code and message.
C3_EnumerationResistance ==
    /\ \A f \in failures : f[2] = INVALID_CREDENTIALS
    /\ \A p \in Procs : Failed(p, "login") =>
           /\ req[p].result = INVALID_CREDENTIALS
           /\ <<req[p].cause, req[p].result>> \in failures

\* all four conditions have been met by some login
C3_Witness ==
    {f[1] : f \in failures} = {"unknown", "inactive", "locked", "password"}

\* C4: once five wrong-password logins in a row have failed (each with the
\* generic error) the account is locked, and a login made while the lock
\* window has not elapsed, the right password included, fails with the same
\* generic error and issues no token and no session.
C4_LockAfterFive ==
    LET r == req["p1"]
    IN  /\ (Failed("p1", "login") /\ r.cause = "password") =>
               /\ r.result = INVALID_CREDENTIALS
               /\ users[Val(r.user).id].failedLoginAttempts
                      = Val(r.user).failedLoginAttempts + 1
               /\ Val(r.user).failedLoginAttempts + 1 = 5 =>
                      /\ r.lockUntil > 0
                      /\ users[Val(r.user).id].lockedUntil = Some(r.lockUntil)
        /\ \A u \in UserIds :
               (r.pc # "setAccountLock" /\ users[u].failedLoginAttempts >= 5)
                   => ~IsNull(users[u].lockedUntil)
        /\ (Done("p1", "login") /\ ~IsNull(r.user) /\ ~IsNull(Val(r.user).lockedUntil)
                /\ Val(Val(r.user).lockedUntil) > now) =>
               /\ r.result = INVALID_CREDENTIALS
               /\ r.refreshToken = 0
               /\ IsNull(r.tokenRow) /\ IsNull(r.sessionRow)

\* five failures are stored, and a login with the right password was refused
\* inside the lock window without any token or session being made
C4_Witness ==
    LET r == req["p1"]
    IN  /\ Failed("p1", "login")
        /\ r.cause = "locked"
        /\ verifyPassword(r.password, users[1].password).valid
        /\ Val(r.user).failedLoginAttempts = 5
        /\ users[1].failedLoginAttempts = 5
        /\ Val(users[1].lockedUntil) > now
        /\ tokens = {} /\ sessions = {}

----------------------------------------------------------------------------
(* SpecLockoutFn: getLockoutDuration on every pair of counts up to MaxAttempts *)

InitLockoutFn ==
    /\ InitStore(<<>>, {}, {}, 0)
    /\ fin \in [n : 0..MaxAttempts, m : 0..MaxAttempts]
    /\ fout = Null
    /\ fpc = "call"

CallLockout ==
    /\ fpc = "call"
    /\ fout' = [n |-> getLockoutDuration(fin.n), m |-> getLockoutDuration(fin.m)]
    /\ fpc' = "return"
    /\ UNCHANGED <<serverVars, clientVars, fin>>

SpecLockoutFn == InitLockoutFn /\ [][CallLockout]_vars

\* null is the least duration
DurationLeq(a, b) == IsNull(a) \/ (~IsNull(b) /\ Val(a) <= Val(b))

\* C5: getLockoutDuration(n) is null below 5, 15 min for 5..9, 30 min for
\* 10..14 and 60 min from 15 on, and never decreases as n grows.
C5_LockoutDuration ==
    fpc = "return" =>
        /\ fin.n < 5 => fout.n = Null
        /\ (5 <= fin.n /\ fin.n <= 9) => fout.n = Some(15 * 60 * 1000)
        /\ (10 <= fin.n /\ fin.n <= 14) => fout.n = Some(30 * 60 * 1000)
        /\ fin.n >= 15 => fout.n = Some(60 * 60 * 1000)
        /\ fin.n <= fin.m => DurationLeq(fout.n, fout.m)

C5_Witness ==
    /\ fpc = "return"
    /\ fin.n = 9 /\ fout.n = Some(900000)
    /\ fin.m = 10 /\ fout.m = Some(1800000)

----------------------------------------------------------------------------
(* SpecVerifyFn: verifyPassword on every password and stored hash *)

InitVerifyFn ==
    /\ InitStore(<<>>, {}, {}, 0)
    /\ fin \in [password : Passwords, hash : Hashes]
    /\ fout = Null
    /\ fpc = "call"

CallVerify ==
    /\ fpc = "call"
    /\ fout' = verifyPassword(fin.password, fin.hash)
    /\ fpc' = "return"
    /\ UNCHANGED <<serverVars, clientVars, fin>>

SpecVerifyFn == InitVerifyFn /\ [][CallVerify]_vars

\* C9: needsRehash is true exactly when the hash is a bcrypt hash ($2a$, $2b$,
\* $2y$) and the password matches it; valid is true exactly when the password
\* matches; so needsRehash implies valid.
C9_RehashFlag ==
    fpc = "return" =>
        LET legacy  == fin.hash.prefix \in {"$2a$", "$2b$", "$2y$"}
            matches == fin.hash.digest = fin.password
        IN  /\ fout.valid = matches
            /\ fout.needsRehash = (legacy /\ matches)
            /\ fout.needsRehash => fout.valid

\* a matching bcrypt hash asked for a rehash
C9_Witness ==
    /\ fpc = "return"
    /\ fin.hash.prefix = "$2y$"
    /\ fin.hash.digest = fin.password
    /\ fout = [valid |-> TRUE, needsRehash |-> TRUE]

----------------------------------------------------------------------------
(* SpecLogout: logout against refresh, the sweep and a failing store *)

InitLogout == InitServer(SeedUsers, SeedTokens, SeedSessions, MaxLogouts)

NextLogout ==
    \/ \E p \in Procs, t \in Issued : LogoutFind(p, t)
    \/ \E p \in Procs, t \in Issued : LogoutFindFails(p, t)
    \/ \E p \in Procs : LogoutSteps(p)
    \/ \E p \in Procs : LogoutStoreFails(p)
    \/ \E p \in Procs, t \in Issued : RefreshFind(p, t)
    \/ \E p \in Procs : RefreshSteps(p)
    \/ SweepTokens
    \/ SweepSessions
    \/ Tick(REFRESH_EXPIRY_MS + 1)

SpecLogout == InitLogout /\ [][NextLogout]_vars

LogoutResolves == \A p \in Procs : Done(p, "logout") => req[p].result = Ok(Null)

\* a step of a logout whose lookup found no row
LogoutOfAbsent(p) ==
    /\ req'[p] # req[p]
    /\ req'[p].op = "logout"
    /\ IsNull(req'[p].storedToken)

\* C6: logout never surfaces an error, whatever the token is (stored, never
\* stored, already deleted) and whichever store call fails; and a logout of
\* a token that has no row (a second logout) changes no table.
C6_LogoutNeverThrows ==
    /\ []LogoutResolves
    /\ [][\A p \in Procs : LogoutOfAbsent(p) => UNCHANGED <<users, tokens, sessions>>]_vars

\* one logout met a failing store call, another came after the token's row
\* had been deleted, and a session delete found its row gone
C6_Witness ==
    \E p, q \in Procs :
        /\ Done(p, "logout") /\ req[p].cause = "store"
        /\ Done(q, "logout") /\ IsNull(req[q].storedToken) /\ req[q].token \in removed
        /\ req[p].result = Ok(Null) /\ req[q].result = Ok(Null)

----------------------------------------------------------------------------
(* SpecAccounts: register, login and the profile reads, interleaved *)

\* a@x: active; d@x: soft-deleted; b@x: active, hash still bcrypt, four
\* wrong passwords so far
AccountUsers ==
    << UserRow(1, "a@x", hashPassword("pw1"), TRUE, Null, 0, Null),
       UserRow(2, "d@x", hashPassword("pw1"), TRUE, Some(0), 0, Null),
       UserRow(3, "b@x", [prefix |-> "$2a$", digest |-> "pw1"], TRUE, Null, 4, Null) >>

InitAccounts == InitServer(AccountUsers, {}, {}, MaxCalls)

NextAccounts ==
    \/ \E p \in Procs, e \in {"a@x", "d@x", "e@x"} : RegisterFind(p, e, "pw1")
    \/ \E p \in Procs : RegisterCreate(p)
    \/ \E p \in Procs, e \in {"b@x", "e@x"}, pw \in {"pw1", "pw2"} : LoginFind(p, e, pw)
    \/ \E p \in Procs : LoginSteps(p)
    \/ \E p \in Procs, u \in UserIds : GetCurrentUser(p, u)
    \/ \E p \in Procs, u \in UserIds : GetUserSessions(p, u)

SpecAccounts == InitAccounts /\ [][NextAccounts]_vars

\* the step that starts register(email) while a non-deleted user holds email
RegisterOfTaken(p) ==
    /\ req[p].pc \in {"idle", "done"}
    /\ req'[p] # req[p]
    /\ req'[p].op = "register"
    /\ ~IsNull(findUserByEmail(req'[p].email))

ConflictLeavesNothing ==
    \A p \in Procs :
        (Done(p, "register") /\ req[p].result.kind = "ConflictError") =>
            /\ req[p].result.code = "EMAIL_ALREADY_EXISTS"
            /\ IsNull(req[p].hashedPassword)
            /\ IsNull(req[p].tokenRow) /\ IsNull(req[p].sessionRow)

\* C7: register with an email a non-deleted user holds fails with
\* ConflictError EMAIL_ALREADY_EXISTS, hashes nothing and leaves the User,
\* RefreshToken and Session tables as they were.
C7_RegisterConflict ==
    /\ []ConflictLeavesNothing
    /\ [][\A p \in Procs : RegisterOfTaken(p) =>
              /\ req'[p].pc = "done"
              /\ req'[p].result = ConflictError("Email already registered",
                                                "EMAIL_ALREADY_EXISTS")
              /\ IsNull(req'[p].hashedPassword)
              /\ UNCHANGED <<users, tokens, sessions>>]_vars

C7_Witness ==
    \E p \in Procs :
        /\ Done(p, "register")
        /\ req[p].email = "a@x"
        /\ req[p].result.code = "EMAIL_ALREADY_EXISTS"
        /\ users = AccountUsers

\* C8: closed error taxonomy.  Every failure a service call surfaces is a
\* ConflictError, an UnauthorizedError or a NotFoundError.
C8_ClosedTaxonomy ==
    \A p \in Procs :
        (req[p].pc = "done" /\ req[p].result.kind # "ok")
            => req[p].result.kind \in TypedErrors
\* what a finished register or login hands back, against the rows it wrote
IssuedFor(p) ==
    LET r == req[p]
        v == r.result.value
    IN  /\ "password" \notin DOMAIN v.user
        /\ v.user.email = r.email
        /\ v.user.id = Val(r.user).id
        /\ v.accessToken = signAccessToken([userId |-> v.user.id, role |-> v.user.role])
        /\ ~IsNull(r.tokenRow) /\ ~IsNull(r.sessionRow)
        /\ Val(r.tokenRow).token = v.refreshToken
        /\ Val(r.tokenRow).userId = v.user.id
        /\ Val(r.sessionRow).userId = v.user.id
        /\ Val(r.tokenRow).expiresAt = Val(r.sessionRow).expiresAt

Granted(p) == Succeeded(p, "register") \/ Succeeded(p, "login")

\* a user row this behaviour's register created
Registered(user) == user.id > Len(AccountUsers)

\* C10: register for an unused email followed by login with the same
\* credentials succeeds; each returns an access credential, a refresh token
\* and a user without a password field, and each writes its own RefreshToken
\* row and Session row, with one expiry, for that user.
C10_RegisterThenLogin ==
    /\ \A p \in Procs : Granted(p) => IssuedFor(p)
    /\ \A p, q \in Procs :
           (p # q /\ Granted(p) /\ Granted(q)) =>
               /\ Val(req[p].tokenRow).token # Val(req[q].tokenRow).token
               /\ Val(req[p].sessionRow).id # Val(req[q].sessionRow).id
    /\ \A p \in Procs :
           (/\ Done(p, "register")
            /\ ~IsNull(req[p].hashedPassword)
            /\ ~IsNull(req[p].user)) => Succeeded(p, "register")
    /\ \A p \in Procs :
           (/\ Done(p, "login")
            /\ ~IsNull(req[p].user)
            /\ Registered(Val(req[p].user))
            /\ req[p].password = "pw1") => Succeeded(p, "login")

C10_Witness ==
    \E p, q \in Procs :
        /\ Succeeded(p, "register")
        /\ Succeeded(q, "login")
        /\ req[q].email = req[p].email
        /\ req[q].password = req[p].password
        /\ Val(req[q].user).id = Val(req[p].user).id
        /\ Val(req[p].tokenRow) \in tokens /\ Val(req[q].tokenRow) \in tokens
        /\ Val(req[p].sessionRow) \in sessions /\ Val(req[q].sessionRow) \in sessions
\* C11: the RefreshToken row and the Session row of a register or login
\* are written atomically.  In no state does the token a register or login
\* inserted sit in the token store without the Session row of that call.
C11_TokenWithSession ==
    \A p \in Procs :
        (/\ req[p].op \in {"register", "login"}
         /\ ~IsNull(req[p].tokenRow)
         /\ Val(req[p].tokenRow) \in tokens)
            => (~IsNull(req[p].sessionRow) /\ Val(req[p].sessionRow) \in sessions)
----------------------------------------------------------------------------
(* SpecLockout: wrong-password logins that lock an account whose refresh *)
(* token is still stored, and refreshes presenting that token            *)

\* a@x logged in earlier (token 1, session 1) and has since had four wrong
\* passwords
LockoutUsers == << UserRow(1, "a@x", hashPassword("pw1"), TRUE, Null, 4, Null) >>

InitLockout == InitServer(LockoutUsers, SeedTokens, SeedSessions, MaxLockCalls)

NextLockout ==
    \/ \E p \in Procs : LoginFind(p, "a@x", "pw2")
    \/ \E p \in Procs : LoginIncrement(p)
    \/ \E p \in Procs : LoginSetLock(p)
    \/ \E p \in Procs, t \in Issued : RefreshFind(p, t)
    \/ \E p \in Procs : RefreshFindUser(p)
    \/ \E p \in Procs : RefreshRotate(p)

SpecLockout == InitLockout /\ [][NextLockout]_vars

\* the login of p has set a lock on its account
SetLockOn(p) ==
    /\ Done(p, "login")
    /\ req[p].lockUntil # 0
    /\ users[Val(req[p].user).id].lockedUntil = Some(req[p].lockUntil)

\* C12: lockout-triggered invalidation.  Once a wrong-password login has set
\* a lock on an account, no RefreshToken row of that user is left, so no
\* token issued before the lockout is redeemable.
C12_LockoutInvalidates ==
    \A p \in Procs :
        SetLockOn(p) => \A t \in tokens : t.userId # Val(req[p].user).id
----------------------------------------------------------------------------
(* Expired tokens, under Spec *)

TOKEN_EXPIRED == UnauthorizedError("Refresh token expired", "REFRESH_TOKEN_EXPIRED")

\* the step that starts refresh(token) while the row of token is stored and
\* its expiry has passed
RefreshOfExpired(p) ==
    /\ req[p].pc \in {"idle", "done"}
    /\ req'[p] # req[p]
    /\ req'[p].op = "refresh"
    /\ \E t \in tokens : t.token = req'[p].token /\ now > t.expiresAt

\* the step in which a refresh that found its token expired finishes
ExpiredDeleted(p) ==
    /\ req[p].pc = "deleteExpired"
    /\ req'[p].pc = "done"

\* C13 as stated: no token is redeemed once its expiry has passed, that
\* is, no rotation happens at a time later than the expiry of the row it
\* consumes.  (The expiry is compared at the lookup only; a rotation by a
\* call that looked the row up before the expiry is not refused.)
C13_NeverRedeemedPastExpiry ==
    \A p \in Procs :
        Succeeded(p, "refresh") =>
            Val(req[p].tokenRow).createdAt <= Val(req[p].storedToken).expiresAt

\* C13, amended: a refresh that looks up a token whose expiry has passed
\* never redeems it.  It goes on to delete the row, whether or not the sweep
\* or a logout removed it first, fails with UnauthorizedError 'Refresh token
\* expired' and inserts no token.
C13_ExpiredNeverRedeemed ==
    /\ [](\A p \in Procs :
            (Done(p, "refresh") /\ req[p].result = TOKEN_EXPIRED) =>
                /\ IsNull(findRefreshToken(req[p].token))
                /\ IsNull(req[p].tokenRow))
    /\ [][\A p \in Procs : RefreshOfExpired(p) =>
              /\ req'[p].pc = "deleteExpired"
              /\ UNCHANGED <<tokens, nextToken>>]_vars
    /\ [][\A p \in Procs : ExpiredDeleted(p) =>
              /\ req'[p].result = TOKEN_EXPIRED
              /\ \A t \in tokens' : t.token # req[p].token
              /\ tokens' \subseteq tokens
              /\ UNCHANGED <<nextToken, redeemed>>]_vars

\* a refresh and a logout both found the row of an expired token; the
\* refresh ended with 'Refresh token expired'
C13_Witness ==
    \E p, q \in Procs :
        /\ Done(p, "refresh")
        /\ req[p].result = TOKEN_EXPIRED
        /\ Done(q, "logout")
        /\ req[q].token = req[p].token
        /\ ~IsNull(req[q].storedToken)
        /\ IsNull(findRefreshToken(req[p].token))
----------------------------------------------------------------------------
(* SpecLogoutAll: two users, each served by one caller, logging in and *)
(* logging out everywhere                                              *)

AllUsers ==
    << UserRow(1, "a@x", hashPassword("pw1"), TRUE, Null, 0, Null),
       UserRow(2, "b@x", hashPassword("pw1"), TRUE, Null, 0, Null) >>

\* a@x holds a live session and one that expired at time 0; b@x holds one
AllTokens == {TokenRow(1, 1, REFRESH_EXPIRY_MS, 0), TokenRow(2, 2, REFRESH_EXPIRY_MS, 0)}
AllSessions ==
    {SessionRow(1, 1, REFRESH_EXPIRY_MS, 0), SessionRow(2, 1, 0, 0),
     SessionRow(3, 2, REFRESH_EXPIRY_MS, 0)}

\* the user each caller acts for
Owner(p) == IF p = "p1" THEN 1 ELSE 2

InitLogoutAll == InitServer(AllUsers, AllTokens, AllSessions, MaxAllCalls)

NextLogoutAll ==
    \/ \E p \in Procs : LoginFind(p, AllUsers[Owner(p)].email, "pw1")
    \/ \E p \in Procs : CreateRefreshToken(p)
    \/ \E p \in Procs : CreateSession(p)
    \/ \E p \in Procs : LogoutAllSessions(p, Owner(p))
    \/ \E p \in Procs : LogoutAllTokens(p)

SpecLogoutAll == InitLogoutAll /\ [][NextLogoutAll]_vars

\* a step of logoutAllSessions made by p
LogoutAllStep(p) ==
    /\ req'[p] # req[p]
    /\ req'[p].op = "logoutAllSessions"

OthersRows(rows, userId) == {r \in rows : r.userId # userId}

\* C14: once logoutAllSessions(u) is done, with no other call on u running,
\* u has no Session row and no RefreshToken row; the number returned is the
\* number of Session rows u had when the call started; rows of other users
\* are as they were.
C14_LogoutAll ==
    /\ [](\A p \in Procs :
            Done(p, "logoutAllSessions") =>
                /\ \A s \in sessions : s.userId # req[p].userId
                /\ \A t \in tokens : t.userId # req[p].userId
                /\ req[p].result.kind = "ok")
    /\ [][\A p \in Procs : LogoutAllStep(p) =>
              /\ req'[p].result =
                     IF req[p].pc = "deleteRefreshTokensByUserId"
                     THEN req[p].result
                     ELSE Ok(Cardinality({s \in sessions : s.userId = req'[p].userId}))
              /\ OthersRows(sessions', req'[p].userId) = OthersRows(sessions, req'[p].userId)
              /\ OthersRows(tokens', req'[p].userId) = OthersRows(tokens, req'[p].userId)
              /\ users' = users]_vars

\* a@x had two Session rows (one expired) and a token; all are gone, 2 was
\* returned, and b@x still has its rows
C14_Witness ==
    /\ Done("p1", "logoutAllSessions")
    /\ req["p1"].result = Ok(2)
    /\ \E s \in sessions : s.userId = 2
    /\ \E t \in tokens : t.userId = 2
----------------------------------------------------------------------------
(* SpecClient: the browser's requests, their 401s and the refreshes the *)
(* interceptor posts                                                    *)

InitClientOnly == InitServer(<<>>, {}, {}, 0)

NextClient ==
    \/ \E x \in Requests : Send(x)
    \/ \E x \in Requests : Respond2xx(x)
    \/ \E x \in Requests : Respond401(x)
    \/ \E x \in Requests : RefreshResolves(x)
    \/ \E x \in Requests : RefreshRejects(x)
    \/ \E x \in Requests : ImportStore(x)
    \/ \E x \in Requests : DispatchLogout(x)
    \/ Tick(REFRESH_TIMEOUT_MS + 1)

SpecClient == InitClientOnly /\ [][NextClient]_vars

\* the POSTs to /auth/refresh that have not settled
RefreshesInFlight == {x \in Requests : requests[x].st = "refreshing"}

\* C15: 401s that arrive while a refresh is in progress are queued, so at
\* most one POST /auth/refresh of the interceptor is in flight at any time.
C15_OneRefreshInFlight == Cardinality(RefreshesInFlight) <= 1
----------------------------------------------------------------------------
(* SpecIncrement: wrong-password logins racing on one unlocked account *)

InitIncrement == InitServer(AllUsers, {}, {}, MaxWrong)

NextIncrement ==
    \/ \E p \in Procs, e \in {"a@x", "b@x"} : LoginFind(p, e, "pw2")
    \/ \E p \in Procs : LoginIncrement(p)

SpecIncrement == InitIncrement /\ [][NextIncrement]_vars

\* logins that read the row of user u and have not yet incremented
PendingIncrements(u) ==
    {p \in Procs : req[p].pc = "incrementFailedAttempts" /\ Val(req[p].user).id = u}

\* C16: wrong-password logins that all pass the lock check before any of
\* them writes raise failedLoginAttempts by one each.  The stored counts add
\* up to the number of wrong-password logins that have run their increment,
\* and two finished logins that read the same count n of one account leave
\* at least n + 2: no update is lost.
C16_NoLostIncrement ==
    /\ users[1].failedLoginAttempts + users[2].failedLoginAttempts
           = (MaxWrong - budget)
               - Cardinality(PendingIncrements(1)) - Cardinality(PendingIncrements(2))
    /\ \A p, q \in Procs :
           (/\ p # q
            /\ Done(p, "login") /\ Done(q, "login")
            /\ Val(req[p].user).id = Val(req[q].user).id
            /\ Val(req[p].user).failedLoginAttempts = Val(req[q].user).failedLoginAttempts)
               => users[Val(req[p].user).id].failedLoginAttempts
                      >= Val(req[p].user).failedLoginAttempts + 2

\* two logins read the same count n and both finished; the count is n + 2
C16_Witness ==
    \E p, q \in Procs :
        /\ p # q
        /\ Failed(p, "login") /\ Failed(q, "login")
        /\ req[p].cause = "password" /\ req[q].cause = "password"
        /\ Val(req[p].user).id = 1 /\ Val(req[q].user).id = 1
        /\ Val(req[p].user).failedLoginAttempts = Val(req[q].user).failedLoginAttempts
        /\ users[1].failedLoginAttempts = Val(req[p].user).failedLoginAttempts + 2
----------------------------------------------------------------------------
(* SpecLogoutMatch: logins at time 0 and a little under or at the tolerance *)
(* later, and logouts of their tokens                                        *)

InitLogoutMatch == InitServer(SeedUsers, SeedTokens, SeedSessions, MaxMatchCalls)

NextLogoutMatch ==
    \/ \E p \in Procs : LoginFind(p, "a@x", "pw1")
    \/ \E p \in Procs : CreateRefreshToken(p)
    \/ \E p \in Procs : CreateSession(p)
    \/ \E p \in Procs, t \in Issued : LogoutFind(p, t)
    \/ \E p \in Procs : LogoutSteps(p)
    \/ \E d \in {TOLERANCE_MS - 1, TOLERANCE_MS} : Tick(d)

SpecLogoutMatch == InitLogoutMatch /\ [][NextLogoutMatch]_vars

\* a step of logout made by p
LogoutStep(p) ==
    /\ req'[p] # req[p]
    /\ req'[p].op = "logout"

\* the owner's unexpired sessions created less than 5000 ms from the token
Candidates(t) ==
    {s \in sessions : /\ s.userId = t.userId
                      /\ s.expiresAt > now
                      /\ s.createdAt - t.createdAt < 5000
                      /\ t.createdAt - s.createdAt < 5000}

\* C17: logout(T) of a stored T deletes T and at most one Session, the first
\* of the owner's active sessions (latest lastActiveAt first) created less
\* than 5000 ms from T; with no such session none is deleted, and if T is not
\* stored no session is looked up or deleted.
C17_LogoutMatchesOneSession ==
    /\ [](\A p \in Procs :
            (req[p].op = "logout" /\ req[p].pc \in {"getUserSessions", "deleteSession"})
                => ~IsNull(req[p].storedToken))
    /\ [][\A p \in Procs : LogoutStep(p) =>
              /\ sessions' \subseteq sessions
              /\ Cardinality(sessions \ sessions') <= 1
              /\ tokens' \subseteq tokens
              /\ \A t \in tokens \ tokens' : t.token = req'[p].token
              /\ req[p].pc = "deleteRefreshToken" =>
                     /\ \A t \in tokens' : t.token # req[p].token
                     /\ sessions' = sessions
                     /\ IsNull(req[p].storedToken) => req'[p].pc = "done"
              /\ req[p].pc = "getUserSessions" =>
                     /\ sessions' = sessions
                     /\ LET c == Candidates(Val(req[p].storedToken))
                        IN  IF c = {}
                            THEN req'[p].pc = "done"
                            ELSE /\ req'[p].pc = "deleteSession"
                                 /\ \E s \in c :
                                        /\ s.id = req'[p].sessionId
                                        /\ \A o \in c : o.lastActiveAt <= s.lastActiveAt
              /\ req[p].pc = "deleteSession" =>
                     \A s \in sessions \ sessions' : s.id = req[p].sessionId]_vars

\* a logout deleted its token and one session while a session outside the
\* window stays
C17_Witness ==
    \E p \in Procs :
        /\ Done(p, "logout")
        /\ ~IsNull(req[p].storedToken)
        /\ IsNull(findRefreshToken(req[p].token))
        /\ req[p].sessionId # 0
        /\ \A s \in sessions : s.id # req[p].sessionId
        /\ \E s \in sessions :
               /\ s.userId = Val(req[p].storedToken).userId
               /\ s.createdAt = Val(req[p].storedToken).createdAt + TOLERANCE_MS
----------------------------------------------------------------------------
(* The effects of one login on the account, under SpecLogin *)

\* what a finished wrong-password login of p leaves behind
WrongPasswordLeft(p) ==
    LET r == req[p]
        before == Val(r.user)
        after == users[before.id]
        duration == getLockoutDuration(before.failedLoginAttempts + 1)
    IN  /\ after.failedLoginAttempts = before.failedLoginAttempts + 1
        /\ after.lockedUntil =
               IF IsNull(duration) THEN before.lockedUntil ELSE Some(r.lockUntil)
        /\ after.password = before.password
        /\ r.result = INVALID_CREDENTIALS
        /\ r.refreshToken = 0
        /\ IsNull(r.tokenRow) /\ IsNull(r.sessionRow)

\* C18: a wrong-password login on an active, unlocked account whose stored
\* count is n leaves the count at n + 1, stores lockedUntil = now +
\* getLockoutDuration(n + 1) when that is non-null and leaves lockedUntil as
\* it was otherwise, makes no token or session and fails with the generic
\* error.
C18_WrongPasswordEffect ==
    /\ []((Failed("p1", "login") /\ req["p1"].cause = "password")
              => WrongPasswordLeft("p1"))
    /\ [][(req["p1"].pc = "incrementFailedAttempts" /\ req'["p1"].pc = "setAccountLock") =>
             req'["p1"].lockUntil
                 = now + Val(getLockoutDuration(Val(req["p1"].user).failedLoginAttempts + 1))]_vars
    /\ [][req["p1"].pc \in {"incrementFailedAttempts", "setAccountLock"} =>
             UNCHANGED <<tokens, sessions, nextToken, nextSession>>]_vars

\* the sixth wrong password, made once the first lock had run out, stored
\* count 6 and a new lock of 15 minutes from then
C18_Witness ==
    LET r == req["p1"]
    IN  /\ Failed("p1", "login")
        /\ r.cause = "password"
        /\ Val(r.user).failedLoginAttempts = 5
        /\ users[1].failedLoginAttempts = 6
        /\ users[1].lockedUntil = Some(2 * LOCKOUT_THRESHOLDS[1].durationMs)

\* C19: after a login with the right password has succeeded on an active
\* account that was not locked at the time, the stored count is 0 and
\* lockedUntil is null, whatever they were before.
C19_SuccessResets ==
    LET r == req["p1"]
    IN  Succeeded("p1", "login") =>
            /\ users[Val(r.user).id].failedLoginAttempts = 0
            /\ IsNull(users[Val(r.user).id].lockedUntil)

\* the account had five failures and a lock that had run out
C19_Witness ==
    LET r == req["p1"]
    IN  /\ Succeeded("p1", "login")
        /\ Val(r.user).failedLoginAttempts >= 5
        /\ ~IsNull(Val(r.user).lockedUntil)
        /\ users[1].failedLoginAttempts = 0
        /\ IsNull(users[1].lockedUntil)

\* the step that starts login(email, ...) while email has no non-deleted
\* user, or the user is inactive, or its lockedUntil lies in the future
LoginRejectedEarly(p) ==
    /\ req[p].pc \in {"idle", "done"}
    /\ req'[p] # req[p]
    /\ req'[p].op = "login"
    /\ LET found == findUserByEmail(req'[p].email)
       IN  \/ IsNull(found)
           \/ ~Val(found).isActive
           \/ (~IsNull(Val(found).lockedUntil) /\ Val(Val(found).lockedUntil) > now)

\* C20: a login rejected before password verification does not call the
\* verifier and changes nothing: counts, locks, hashes, tokens and sessions
\* stay as they were.
C20_EarlyRejectIsInert ==
    /\ [][\A p \in Procs : LoginRejectedEarly(p) =>
              /\ req'[p].pc = "done"
              /\ req'[p].result = INVALID_CREDENTIALS
              /\ ~req'[p].verified
              /\ UNCHANGED <<users, tokens, sessions>>]_vars
    /\ [](\A p \in Procs :
            (Failed(p, "login") /\ req[p].cause \in {"unknown", "inactive", "locked"})
                => ~req[p].verified /\ IsNull(req[p].tokenRow) /\ IsNull(req[p].sessionRow))

\* a wrong password tried inside the lock window: count and lock are what
\* the login read
C20_Witness ==
    LET r == req["p1"]
    IN  /\ Failed("p1", "login")
        /\ r.cause = "locked"
        /\ ~r.verified
        /\ ~verifyPassword(r.password, users[1].password).valid
        /\ users[1].failedLoginAttempts = 5
        /\ users[1] = Val(r.user)
----------------------------------------------------------------------------
(* SpecOwner: refreshes of tokens whose owner is active, disabled or *)
(* soft-deleted                                                      *)

OwnerUsers ==
    << UserRow(1, "a@x", hashPassword("pw1"), TRUE, Null, 0, Null),
       UserRow(2, "c@x", hashPassword("pw1"), FALSE, Null, 0, Null),
       UserRow(3, "d@x", hashPassword("pw1"), TRUE, Some(0), 0, Null) >>

OwnerTokens == {TokenRow(u, u, REFRESH_EXPIRY_MS, 0) : u \in 1..3}

OwnerSessions == {SessionRow(u, u, REFRESH_EXPIRY_MS, 0) : u \in 1..3}

InitOwner == InitServer(OwnerUsers, OwnerTokens, OwnerSessions, MaxOwnerCalls)

NextOwner ==
    \/ \E p \in Procs, t \in Issued : RefreshFind(p, t)
    \/ \E p \in Procs : RefreshFindUser(p)
    \/ \E p \in Procs : RefreshRotate(p)

SpecOwner == InitOwner /\ [][NextOwner]_vars

USER_DISABLED == UnauthorizedError("User not found or disabled", "INVALID_REFRESH_TOKEN")

\* the step in which refresh loads the owner of its token and the owner is
\* missing, soft-deleted or inactive
RefreshOfOrphan(p) ==
    /\ req[p].pc = "findUserById"
    /\ req'[p] # req[p]
    /\ LET id == Val(req[p].storedToken).userId
       IN  \/ id \notin UserIds
           \/ ~IsNull(users[id].deletedAt)
           \/ ~users[id].isActive

\* C21: refresh of a stored, unexpired token whose owner is missing,
\* soft-deleted or inactive fails with 'User not found or disabled' and
\* rotates nothing: the row of T stays, no row is inserted and no credential
\* is returned.
C21_OrphanNotRotated ==
    /\ [][\A p \in Procs : RefreshOfOrphan(p) =>
              /\ req'[p].pc = "done"
              /\ req'[p].result = USER_DISABLED
              /\ UNCHANGED <<users, tokens, sessions, nextToken, redeemed, known>>]_vars
    /\ [](\A p \in Procs :
            (Done(p, "refresh") /\ req[p].result = USER_DISABLED) =>
                /\ req[p].storedToken = findRefreshToken(req[p].token)
                /\ IsNull(req[p].accessToken)
                /\ req[p].refreshToken = 0
                /\ IsNull(req[p].tokenRow))

\* the token of the disabled user and the token of the soft-deleted user
\* were both refused and both are still stored
C21_Witness ==
    \E p, q \in Procs :
        /\ Done(p, "refresh") /\ req[p].token = 2 /\ req[p].result = USER_DISABLED
        /\ Done(q, "refresh") /\ req[q].token = 3 /\ req[q].result = USER_DISABLED
        /\ OwnerTokens \subseteq tokens
----------------------------------------------------------------------------
(* SpecRehash: logins against a legacy hash, the upgrade succeeding or *)
(* failing                                                             *)

InitRehash == InitServer(<<LoginUsers[1]>>, {}, {}, MaxRehashCalls)

NextRehash ==
    \/ \E p \in Procs, pw \in {"pw1", "pw2"} : LoginFind(p, "a@x", pw)
    \/ \E p \in Procs : LoginIncrement(p)
    \/ \E p \in Procs : LoginReset(p)
    \/ \E p \in Procs : LoginRehash(p)
    \/ \E p \in Procs : LoginRehashFails(p)
    \/ \E p \in Procs : CreateRefreshToken(p)
    \/ \E p \in Procs : CreateSession(p)

SpecRehash == InitRehash /\ [][NextRehash]_vars

\* C22: a failure to compute or persist the upgraded hash neither blocks nor
\* fails the login.  Every finished login whose password matched a legacy
\* hash has issued its credentials.
C22_RehashErrorTolerated ==
    \A p \in Procs :
        (Done(p, "login") /\ req[p].needsRehash) =>
            /\ req[p].result.kind = "ok"
            /\ ~IsNull(req[p].tokenRow)
            /\ ~IsNull(req[p].sessionRow)
----------------------------------------------------------------------------
(* Logout picking the session of another login, under SpecLogoutMatch *)

\* the step in which the logout of p picks the session it will delete
LogoutPicks(p) ==
    /\ req[p].pc = "getUserSessions"
    /\ req'[p].pc = "deleteSession"

\* C23: logout can delete the session of another login of the same user, and
\* only one made within the tolerance window: the session a logout picks
\* belongs to the owner of its token and was created less than 5000 ms from
\* the token, whichever login created it.
C23_PicksWithinWindow ==
    [][\A p \in Procs : LogoutPicks(p) =>
           \E s \in sessions :
               /\ s.id = req'[p].sessionId
               /\ s.userId = Val(req[p].storedToken).userId
               /\ s.createdAt - Val(req[p].storedToken).createdAt < TOLERANCE_MS
               /\ Val(req[p].storedToken).createdAt - s.createdAt < TOLERANCE_MS]_vars

\* p logged in; a later login of the same user made its pair within the
\* window; logout with p's token deleted the later login's session: p's
\* session is still there and the later login's token is still stored
C23_Witness ==
    \E p, q \in Procs :
        /\ Succeeded(p, "login")
        /\ Done(q, "logout")
        /\ req[q].token = Val(req[p].tokenRow).token
        /\ ~IsNull(req[q].storedToken)
        /\ req[q].sessionId > Val(req[p].sessionRow).id
        /\ \A s \in sessions : s.id # req[q].sessionId
        /\ Val(req[p].sessionRow) \in sessions
        /\ Val(req[p].tokenRow) \notin tokens
        /\ \E t \in tokens :
               /\ t.userId = Val(req[p].tokenRow).userId
               /\ t.token > Val(req[p].tokenRow).token
               /\ t.expiresAt > now
----------------------------------------------------------------------------
(* SpecRotate: login, refresh, logout and logoutAllSessions of one user, *)
(* with the clock able to move past the tolerance window                 *)

InitRotate == InitServer(SeedUsers, {}, {}, MaxRotateCalls)

NextRotate ==
    \/ \E p \in Procs : LoginFind(p, "a@x", "pw1")
    \/ \E p \in Procs : CreateRefreshToken(p)
    \/ \E p \in Procs : CreateSession(p)
    \/ \E p \in Procs, t \in Issued : RefreshFind(p, t)
    \/ \E p \in Procs : RefreshFindUser(p)
    \/ \E p \in Procs : RefreshRotate(p)
    \/ \E p \in Procs, t \in Issued : LogoutFind(p, t)
    \/ \E p \in Procs : LogoutSteps(p)
    \/ \E p \in Procs : LogoutAllSessions(p, 1)
    \/ \E p \in Procs : LogoutAllTokens(p)
    \/ Tick(TOLERANCE_MS + 1)

SpecRotate == InitRotate /\ [][NextRotate]_vars

\* the same calls made one after the other by a single caller
NextRotateSeq ==
    \/ LoginFind("p1", "a@x", "pw1")
    \/ CreateRefreshToken("p1")
    \/ CreateSession("p1")
    \/ \E t \in Issued : RefreshFind("p1", t)
    \/ RefreshFindUser("p1")
    \/ RefreshRotate("p1")
    \/ \E t \in Issued : LogoutFind("p1", t)
    \/ LogoutSteps("p1")
    \/ LogoutAllSessions("p1", 1)
    \/ LogoutAllTokens("p1")
    \/ Tick(TOLERANCE_MS + 1)

SpecRotateSeq == InitRotate /\ [][NextRotateSeq]_vars

\* no service call is running
Quiescent == \A p \in Procs : req[p].pc \in {"idle", "done"}

\* C24: token/session pairing.  In every quiescent state each user has as
\* many RefreshToken rows as Session rows.
C24_Pairing ==
    Quiescent =>
        \A u \in UserIds :
            Cardinality({t \in tokens : t.userId = u})
                = Cardinality({s \in sessions : s.userId = u})

\* C25: after the one login of a user (token and session written at the same
\* instant), a refresh more than 5 s later and a logout with the rotated
\* token, the Session row of that login is gone.
C25_LogoutAfterRotation ==
    \A p, q \in Procs :
        (/\ Succeeded(p, "login")
         /\ nextSession = 2
         /\ Val(req[p].tokenRow).createdAt = Val(req[p].sessionRow).createdAt
         /\ Done(q, "logout")
         /\ ~IsNull(req[q].storedToken)
         /\ req[q].token # Val(req[p].tokenRow).token
         /\ Val(req[q].storedToken).createdAt
                > Val(req[p].sessionRow).createdAt + TOLERANCE_MS)
            => Val(req[p].sessionRow) \notin sessions
----------------------------------------------------------------------------
(* SpecLockRace: wrong-password logins racing near the first threshold *)

\* a@x has had three wrong passwords
RaceUsers == << UserRow(1, "a@x", hashPassword("pw1"), TRUE, Null, 3, Null) >>

InitLockRace == InitServer(RaceUsers, {}, {}, MaxRaceCalls)

NextLockRace ==
    \/ \E p \in Procs : LoginFind(p, "a@x", "pw2")
    \/ \E p \in Procs : LoginIncrement(p)
    \/ \E p \in Procs : LoginSetLock(p)

SpecLockRace == InitLockRace /\ [][NextLockRace]_vars

\* C26: under any interleaving of wrong-password logins on one account, once
\* all of them have completed a stored count of 5 or more comes with a
\* lockedUntil.
C26_ThresholdMeansLocked ==
    Quiescent =>
        \A u \in UserIds :
            users[u].failedLoginAttempts >= LOCKOUT_THRESHOLDS[1].attempts
                => ~IsNull(users[u].lockedUntil)
----------------------------------------------------------------------------
(* logout racing refresh on one token, under SpecLogout *)

\* C27: when logout(T) and refresh(T) both found the row of T (they ran
\* concurrently) and both have completed, no token descended from T is
\* redeemable: the refresh failed, or the token it inserted is gone too.
C27_LogoutBeatsRefresh ==
    \A p, q \in Procs :
        (/\ Done(p, "logout") /\ req[p].cause # "store"
         /\ Done(q, "refresh")
         /\ req[p].token = req[q].token
         /\ ~IsNull(req[p].storedToken)
         /\ ~IsNull(req[q].storedToken))
            => \/ req[q].result.kind # "ok"
               \/ Val(req[q].tokenRow) \notin tokens

----------------------------------------------------------------------------
(* SpecAllRace: refreshes racing logoutAllSessions of the same user *)

InitAllRace == InitServer(SeedUsers, SeedTokens, SeedSessions, MaxAllRaceCalls)

NextAllRace ==
    \/ \E p \in Procs, t \in Issued : RefreshFind(p, t)
    \/ \E p \in Procs : RefreshFindUser(p)
    \/ \E p \in Procs : RefreshRotate(p)
    \/ \E p \in Procs : LogoutAllSessions(p, 1)
    \/ \E p \in Procs : LogoutAllTokens(p)

SpecAllRace == InitAllRace /\ [][NextAllRace]_vars

\* C28: once logoutAllSessions(u) has completed, u has no RefreshToken row,
\* also when a refresh of u had passed its lookup before: that refresh
\* either fails with 'Refresh token already used' or the row it inserted
\* has been removed.
C28_LogoutAllBeatsRefresh ==
    \A p \in Procs :
        Done(p, "logoutAllSessions") =>
            /\ \A t \in tokens : t.userId # req[p].userId
            /\ \A q \in Procs :
                   (Done(q, "refresh") /\ ~IsNull(req[q].storedToken)) =>
                       \/ req[q].result = ALREADY_USED
                       \/ /\ req[q].result.kind = "ok"
                          /\ Val(req[q].tokenRow) \notin tokens

\* a refresh found its token, logoutAllSessions removed it, and the rotation
\* was refused
C28_Witness ==
    \E p, q \in Procs :
        /\ Done(p, "logoutAllSessions")
        /\ Done(q, "refresh")
        /\ ~IsNull(req[q].storedToken)
        /\ req[q].result = ALREADY_USED
        /\ req[q].token \notin Range(redeemed)
        /\ tokens = {}
----------------------------------------------------------------------------
(* the scheme of the stored password hash, under SpecAccounts *)

RehashedOnLogin ==
    \A p \in Procs :
        (Succeeded(p, "login") /\ req[p].needsRehash) =>
            LET stored == users[Val(req[p].user).id].password
            IN  /\ stored.prefix = ARGON2_PREFIX
                /\ verifyPassword(req[p].password, stored)
                       = [valid |-> TRUE, needsRehash |-> FALSE]

----------------------------------------------------------------------------
(* the queue of parked requests, under SpecClient *)

\* C30: whenever isRefreshing is false, failedQueue is empty: no parked
\* request is left waiting without a refresh in progress that will settle it.
C30_IdleMeansEmptyQueue == ~isRefreshing => failedQueue = {}

====
